---- MODULE Spec2Model ----
(***************************************************************************)
(* A model of the RandomVariable library (nasa/RVLib): the nonparametric   *)
(* containers Unweighted and Weighted, the parametric families Normal and  *)
(* Lognormal, the RandomVariableContainer and the Translation sampling     *)
(* functions.                                                              *)
(*                                                                         *)
(* Numbers.  A double stored in a container is modelled as an integer in   *)
(* units of std::numeric_limits<double>::epsilon(): the model value k is   *)
(* the double k * epsilon.  Two model values that differ by 1 are thus     *)
(* different doubles that isDoubleEqual() declares equal.  A size_t        *)
(* is a sequence of four 16-bit limbs (least significant first) and an     *)
(* unsigned int a sequence of two, so that arithmetic keeps its width.     *)
(***************************************************************************)
EXTENDS Integers, Sequences, FiniteSets, TLC

VARIABLES
    kind,       \* class of the nonparametric object under test: "none" before construction
    udata,      \* Unweighted::data  (vector<double>)
    wdata,      \* Weighted::data    (vector<pair<double, unsigned int>>)
    wsize,      \* Weighted::size    (size_t, four 16-bit limbs)
    last,       \* the last call made on the object and whether it threw
    fin,        \* argument of the pure function under test
    fout,       \* what the function returned: [op, ...]
    pkind,      \* class of the parametric object under test: "none" before construction
    mu,         \* Normal::mu / Lognormal::mu, in tenths
    sigma,      \* Normal::sigma / Lognormal::sigma, in tenths
    plast,      \* the last call made on the parametric object and whether it threw
    inst,       \* the nonparametric containers that are sampled: instance -> container
    count,      \* the four function-local "static unsigned int count" of the library
    calls,      \* per instance, how many sampleSingle() calls it has received
    sret,       \* the last sampling call and what it returned
    rvcData,    \* RandomVariableContainer::data: the members, in stored order
    rvcEq,      \* RandomVariableContainer::eq: the combining function, "nullptr" if unset
    mc          \* the Translation call that was made last, and its trace and result

npvars == <<kind, udata, wdata, wsize, last>>
fnvars == <<fin, fout>>
parvars == <<pkind, mu, sigma, plast>>
sampvars == <<inst, count, calls, sret>>
rvcvars == <<rvcData, rvcEq, mc>>
vars == <<npvars, fnvars, parvars, sampvars, rvcvars>>

----------------------------------------------------------------------------
(* Bounds of the model and the inputs the operations are called with. *)

\* representative doubles, in units of epsilon: 0 and 1 are different doubles
\* that are isDoubleEqual, so are 1 and 2, while 0 and 2 are not
Values == {0, 1, 2}
MaxLen == 3         \* longest vector given to a constructor, longest Unweighted data
MaxPairs == 2       \* most pairs given to a constructor or held by a Weighted
MaxFreq == 2        \* largest frequency passed in or stored
MaxWraps == 1       \* how often the 32-bit difference in Weighted::set may wrap

Abs(x) == IF x < 0 THEN -x ELSE x

\* all sequences over S of length 0..n
SeqsUpTo(S, n) == UNION {[1..m -> S] : m \in 0..n}

----------------------------------------------------------------------------
(* Fixed-width unsigned arithmetic. *)

Limb == 2^16

\* a small natural number as size_t
ToSize(n) == <<n % Limb, (n \div Limb) % Limb, 0, 0>>

\* size_t addition, modulo 2^64
Add64(a, b) ==
    LET s1 == a[1] + b[1]
        s2 == a[2] + b[2] + (s1 \div Limb)
        s3 == a[3] + b[3] + (s2 \div Limb)
        s4 == a[4] + b[4] + (s3 \div Limb)
    IN  <<s1 % Limb, s2 % Limb, s3 % Limb, s4 % Limb>>

\* size_t negation, modulo 2^64 (two's complement)
Neg64(a) ==
    Add64(<<Limb - 1 - a[1], Limb - 1 - a[2], Limb - 1 - a[3], Limb - 1 - a[4]>>,
          ToSize(1))

\* size_t subtraction, modulo 2^64
Sub64(a, b) == Add64(a, Neg64(b))

\* a - b computed in unsigned int (modulo 2^32) and then widened to size_t,
\* for unsigned int operands a, b below 2^16
SubU32(a, b) ==
    IF a >= b THEN ToSize(a - b)
    ELSE <<Limb - (b - a), Limb - 1, 0, 0>>

\* unsigned int, two 16-bit limbs: increment modulo 2^32
Inc32(c) ==
    IF c[1] + 1 < Limb THEN <<c[1] + 1, c[2]>>
    ELSE <<0, (c[2] + 1) % Limb>>

\* c % s for an unsigned int c and a divisor 0 < s < 2^16
Mod32(c, s) == ((c[2] % s) * (Limb % s) + (c[1] % s)) % s

\* static_cast<int>(size_t): the low 32 bits read as a signed int
ToInt(sz) ==
    IF sz[2] < Limb \div 2 THEN sz[2] * Limb + sz[1]
    ELSE (sz[2] - Limb) * Limb + sz[1]

----------------------------------------------------------------------------
(* Numeric primitives (RandomVariable.cpp). *)

\* std::numeric_limits<double>::epsilon(), the unit of the model's doubles
Epsilon == 1

isDoubleEqual(a, b) == Abs(a - b) < Epsilon * 2

----------------------------------------------------------------------------
(* Weighted (Weighted.cpp).  A Weighted object is [data, size]; a pair is  *)
(* [first, second] like std::pair<double, unsigned int>.  Indices k are    *)
(* 0-based as in the code; data.at(k) is data[k + 1].                      *)

Pair(d, f) == [first |-> d, second |-> f]

PairInputs == [first : Values, second : 0..MaxFreq]

\* std::sort on a vector<double>: insertion of x into a sorted sequence
RECURSIVE InsertSorted(_, _)
InsertSorted(x, s) ==
    IF s = <<>> THEN <<x>>
    ELSE IF x <= Head(s) THEN <<x>> \o s
    ELSE <<Head(s)>> \o InsertSorted(x, Tail(s))

\* std::sort left out: the vector stays in the order given
StdSortSkipped(v) == v

RECURSIVE StdSort(_)
StdSort(v) == IF v = <<>> THEN <<>> ELSE InsertSorted(Head(v), StdSort(Tail(v)))

\* sum of the frequencies of a vector of pairs
RECURSIVE FreqSum(_)
FreqSum(pv) == IF pv = <<>> THEN 0 ELSE Head(pv).second + FreqSum(Tail(pv))

\* the loop of Weighted::Weighted(vector_type): v is sorted, i the position
\* of x, prev the value of the current run, data the pairs built so far
RECURSIVE WeightedScan(_, _, _, _)
WeightedScan(v, i, prev, data) ==
    IF i > Len(v) THEN data
    ELSE LET x == v[i]
             newRun == ~isDoubleEqual(prev, x)
             prev2 == IF newRun THEN x ELSE prev
             d1 == IF newRun THEN Append(data, Pair(prev2, 0)) ELSE data
             d2 == [d1 EXCEPT ![Len(d1)].second = @ + 1]
         IN  WeightedScan(v, i + 1, prev2, d2)

\* Weighted::Weighted(RandomVariable::vector_type v)
WeightedFromVector(v) ==
    [size |-> ToSize(Len(v)),
     data |-> IF Len(v) > 0
              THEN LET s == StdSort(v)
                   IN  WeightedScan(s, 1, s[1], <<Pair(s[1], 0)>>)
              ELSE <<>>]

\* Weighted::Weighted(const pvector_type& v)
WeightedFromPairs(v) == [size |-> ToSize(FreqSum(v)), data |-> v]

\* Weighted::findValPtr: position (1-based) of the first pair whose value
\* isDoubleEqual to val, 0 for end()
findValPtr(data, val) ==
    IF \E i \in 1..Len(data) : isDoubleEqual(data[i].first, val)
    THEN CHOOSE i \in 1..Len(data) :
            /\ isDoubleEqual(data[i].first, val)
            /\ \A j \in 1..(i - 1) : ~isDoubleEqual(data[j].first, val)
    ELSE 0

\* Weighted::getWData
W_getWData(w) == w.data

\* an expansion that forgets the frequencies: one copy of each value
ExpandOnce(pv) == [i \in 1..Len(pv) |-> pv[i].first]

\* Weighted::getData: every pair expanded to `second` copies of `first`
RECURSIVE Expand(_)
Expand(pv) ==
    IF pv = <<>> THEN <<>>
    ELSE [i \in 1..Head(pv).second |-> Head(pv).first] \o Expand(Tail(pv))

W_getData(w) == Expand(w.data)

\* Weighted::set(k, p) for k < data.size(): size += p.second - data.at(k).second
\* with both operands unsigned int, then data.at(k) = p
W_set(w, k, p) ==
    [size |-> Add64(w.size, SubU32(p.second, w.data[k + 1].second)),
     data |-> [w.data EXCEPT ![k + 1] = p]]

\* Weighted::setFreq(d, freq) when d is found at position it:
\* size += freq - it->second with freq a size_type
W_setFreq(w, it, freq) ==
    [size |-> Add64(w.size, Sub64(ToSize(freq), ToSize(w.data[it].second))),
     data |-> [w.data EXCEPT ![it].second = freq]]

\* Weighted::append(const f_pair p)
W_appendPair(w, p) ==
    LET it == findValPtr(w.data, p.first)
    IN  [size |-> Add64(w.size, ToSize(p.second)),
         data |-> IF it = 0 THEN Append(w.data, p)
                  ELSE [w.data EXCEPT ![it].second = @ + p.second]]

\* an append that never looks for the value
W_appendAlwaysPush(w, d) ==
    [size |-> Add64(w.size, ToSize(1)), data |-> Append(w.data, Pair(d, 1))]

\* Weighted::append(const double d)
W_append(w, d) ==
    LET it == findValPtr(w.data, d)
    IN  [size |-> Add64(w.size, ToSize(1)),
         data |-> IF it = 0 THEN Append(w.data, Pair(d, 1))
                  ELSE [w.data EXCEPT ![it].second = @ + 1]]

\* a double result as the fraction num / den
Frac(n, d) == [num |-> n, den |-> d]
FracEq(a, b) == a.num * b.den = b.num * a.den

\* Weighted::meanHeight: the sum of the frequencies over static_cast<int>(size)
W_meanHeight(w) == Frac(FreqSum(w.data), ToInt(w.size))

----------------------------------------------------------------------------
(* Unweighted (Unweighted.cpp, in RandomVariable.cpp). *)

\* Unweighted::Unweighted(const vector_type& v)
UnweightedFromVector(v) == v

\* Unweighted::Unweighted(const pvector_type& v)
UnweightedFromPairs(pv) == Expand(pv)

\* Unweighted::getWData: Weighted w(data); return w.getWData()
U_getWData(data) == W_getWData(WeightedFromVector(data))

\* Unweighted::meanHeight: the sum of the frequencies of getWData() over data.size()
U_meanHeight(data) == Frac(FreqSum(U_getWData(data)), Len(data))

----------------------------------------------------------------------------
(* The life of one nonparametric object: a constructor, then mutations. *)

W == [data |-> wdata, size |-> wsize]

Called(op, threw) == [op |-> op, threw |-> threw]

\* a call with the arguments it was given; of a rejected call, the argument
\* that was rejected
CalledWith(op, threw, args) == [op |-> op, threw |-> threw, args |-> args]

\* no nonparametric object under test
IdleNP ==
    /\ kind = "none"
    /\ udata = <<>>
    /\ wdata = <<>>
    /\ wsize = ToSize(0)
    /\ last = Called("none", FALSE)

\* no pure function under test
IdleFn ==
    /\ fin = <<>>
    /\ fout = [op |-> "none"]

\* no parametric object under test
IdlePar ==
    /\ pkind = "none"
    /\ mu = 0
    /\ sigma = 0
    /\ plast = Called("none", FALSE)

\* no container is being sampled; the static counters are zero-initialized
IdleSamp ==
    /\ inst = <<>>
    /\ count = [USingle |-> <<0, 0>>, USample |-> <<0, 0>>,
                WSingle |-> <<0, 0>>, WSample |-> <<0, 0>>]
    /\ calls = <<>>
    /\ sret = [op |-> "none"]

\* RandomVariableContainer::RandomVariableContainer(), no Translation call made
IdleRvc ==
    /\ rvcData = <<>>
    /\ rvcEq = "nullptr"
    /\ mc = [op |-> "none"]

notNP == <<fnvars, parvars, sampvars, rvcvars>>

InitNP == IdleNP /\ IdleFn /\ IdlePar /\ IdleSamp /\ IdleRvc

NewUnweightedVector ==
    /\ kind = "none"
    /\ \E v \in SeqsUpTo(Values, MaxLen) :
          udata' = UnweightedFromVector(v)
    /\ kind' = "Unweighted"
    /\ last' = Called("Unweighted(vector)", FALSE)
    /\ UNCHANGED <<wdata, wsize>>
    /\ UNCHANGED notNP

NewUnweightedPairs ==
    /\ kind = "none"
    /\ \E pv \in SeqsUpTo(PairInputs, MaxPairs) :
          /\ FreqSum(pv) <= MaxLen
          /\ udata' = UnweightedFromPairs(pv)
    /\ kind' = "Unweighted"
    /\ last' = Called("Unweighted(pairs)", FALSE)
    /\ UNCHANGED <<wdata, wsize>>
    /\ UNCHANGED notNP

\* Weighted::Weighted()
NewWeighted ==
    /\ kind = "none"
    /\ kind' = "Weighted"
    /\ wdata' = <<>>
    /\ wsize' = ToSize(0)
    /\ last' = Called("Weighted()", FALSE)
    /\ UNCHANGED udata
    /\ UNCHANGED notNP

NewWeightedVector ==
    /\ kind = "none"
    /\ \E v \in SeqsUpTo(Values, MaxLen) :
          LET w == WeightedFromVector(v)
          IN  wdata' = w.data /\ wsize' = w.size
    /\ kind' = "Weighted"
    /\ last' = Called("Weighted(vector)", FALSE)
    /\ UNCHANGED udata
    /\ UNCHANGED notNP

NewWeightedPairs ==
    /\ kind = "none"
    /\ \E pv \in SeqsUpTo(PairInputs, MaxPairs) :
          LET w == WeightedFromPairs(pv)
          IN  wdata' = w.data /\ wsize' = w.size
    /\ kind' = "Weighted"
    /\ last' = Called("Weighted(pairs)", FALSE)
    /\ UNCHANGED udata
    /\ UNCHANGED notNP

\* Unweighted::set(k, d): data.at(k) = d, std::out_of_range when k >= size
USet ==
    /\ kind = "Unweighted"
    /\ \E k \in 0..MaxLen, d \in Values :
          IF k < Len(udata)
          THEN /\ udata' = [udata EXCEPT ![k + 1] = d]
               /\ last' = CalledWith("set", FALSE, <<k, d>>)
          ELSE /\ udata' = udata
               /\ last' = CalledWith("set", TRUE, <<k>>)
    /\ UNCHANGED <<kind, wdata, wsize>>
    /\ UNCHANGED notNP

\* an append that stores d in front
UAppendFront ==
    /\ kind = "Unweighted"
    /\ Len(udata) < MaxLen
    /\ \E d \in Values :
          /\ udata' = <<d>> \o udata
          /\ last' = CalledWith("append", FALSE, <<d>>)
    /\ UNCHANGED <<kind, wdata, wsize>>
    /\ UNCHANGED notNP

\* Unweighted::append(d)
UAppend ==
    /\ kind = "Unweighted"
    /\ Len(udata) < MaxLen
    /\ \E d \in Values :
          /\ udata' = Append(udata, d)
          /\ last' = CalledWith("append", FALSE, <<d>>)
    /\ UNCHANGED <<kind, wdata, wsize>>
    /\ UNCHANGED notNP

\* Weighted::set(k, p): data.at(k) throws std::out_of_range before size is written
WSet ==
    /\ kind = "Weighted"
    /\ \E k \in 0..MaxPairs, p \in PairInputs :
          IF k < Len(wdata)
          THEN /\ (p.second < wdata[k + 1].second) => wsize[3] < MaxWraps
               /\ LET w == W_set(W, k, p)
                  IN  wdata' = w.data /\ wsize' = w.size
               /\ last' = CalledWith("set", FALSE, <<k, p>>)
          ELSE /\ UNCHANGED <<wdata, wsize>>
               /\ last' = CalledWith("set", TRUE, <<k>>)
    /\ UNCHANGED <<kind, udata>>
    /\ UNCHANGED notNP

\* a setFreq that counts freq into size before it looks the value up
WSetFreqCounting ==
    /\ kind = "Weighted"
    /\ \E d \in Values, freq \in 0..MaxFreq :
          LET it == findValPtr(wdata, d)
          IN  IF it = 0
              THEN /\ wsize' = Add64(wsize, ToSize(freq))
                   /\ UNCHANGED wdata
                   /\ last' = CalledWith("setFreq", TRUE, <<d>>)
              ELSE /\ LET w == W_setFreq(W, it, freq)
                      IN  wdata' = w.data /\ wsize' = w.size
                   /\ last' = CalledWith("setFreq", FALSE, <<d, freq>>)
    /\ UNCHANGED <<kind, udata>>
    /\ UNCHANGED notNP

\* Weighted::setFreq(d, freq): std::invalid_argument when d is not in the set
WSetFreq ==
    /\ kind = "Weighted"
    /\ \E d \in Values, freq \in 0..MaxFreq :
          LET it == findValPtr(wdata, d)
          IN  IF it = 0
              THEN /\ UNCHANGED <<wdata, wsize>>
                   /\ last' = CalledWith("setFreq", TRUE, <<d>>)
              ELSE /\ LET w == W_setFreq(W, it, freq)
                      IN  wdata' = w.data /\ wsize' = w.size
                   /\ last' = CalledWith("setFreq", FALSE, <<d, freq>>)
    /\ UNCHANGED <<kind, udata>>
    /\ UNCHANGED notNP

\* the model's cap on what an append may grow: pairs and stored frequencies
AppendFits(p) ==
    LET it == findValPtr(wdata, p.first)
    IN  IF it = 0 THEN Len(wdata) < MaxPairs
        ELSE wdata[it].second + p.second <= MaxFreq

WAppendPair ==
    /\ kind = "Weighted"
    /\ \E p \in PairInputs :
          /\ AppendFits(p)
          /\ LET w == W_appendPair(W, p)
             IN  wdata' = w.data /\ wsize' = w.size
          /\ last' = CalledWith("append(pair)", FALSE, <<p>>)
    /\ UNCHANGED <<kind, udata>>
    /\ UNCHANGED notNP

WAppend ==
    /\ kind = "Weighted"
    /\ \E d \in Values :
          /\ AppendFits(Pair(d, 1))
          /\ LET w == W_append(W, d)
             IN  wdata' = w.data /\ wsize' = w.size
          /\ last' = CalledWith("append", FALSE, <<d>>)
    /\ UNCHANGED <<kind, udata>>
    /\ UNCHANGED notNP

NextNP ==
    \/ NewUnweightedVector
    \/ NewUnweightedPairs
    \/ NewWeighted
    \/ NewWeightedVector
    \/ NewWeightedPairs
    \/ USet
    \/ UAppend
    \/ WSet
    \/ WSetFreq
    \/ WAppendPair
    \/ WAppend

SpecNP == InitNP /\ [][NextNP]_vars

----------------------------------------------------------------------------
(* Properties of the nonparametric containers, checked under SpecNP. *)

\* the pairs pv are in ascending order of value
SortedByValue(pv) ==
    \A i, j \in 1..Len(pv) : i < j => pv[i].first <= pv[j].first

\* the different values held by a vector of doubles / a vector of pairs
ValuesOf(v) == {v[i] : i \in 1..Len(v)}
FirstsOf(pv) == {pv[i].first : i \in 1..Len(pv)}

\* C1: in every reachable state of a Weighted container the cached total
\* count getSize() equals the sum of the frequencies of the stored pairs,
\* also after a set() that lowers a frequency.
C1_SizeIsFrequencySum ==
    kind = "Weighted" => wsize = ToSize(FreqSum(wdata))

\* C5: meanHeight() of a non-empty container equals the total count of
\* values divided by the number of distinct values.
C5_MeanHeightIsCountPerDistinct ==
    /\ (kind = "Unweighted" /\ Len(udata) > 0) =>
          FracEq(U_meanHeight(udata),
                 Frac(Len(udata), Cardinality(ValuesOf(udata))))
    /\ (kind = "Weighted" /\ FreqSum(wdata) > 0) =>
          FracEq(W_meanHeight(W),
                 Frac(FreqSum(wdata), Cardinality(FirstsOf(wdata))))

\* C6: in every reachable state of a Weighted container no two stored
\* pairs have values that are equal under isDoubleEqual.
C6_ValuesPairwiseDistinct ==
    kind = "Weighted" =>
       \A i, j \in 1..Len(wdata) :
          i < j => ~isDoubleEqual(wdata[i].first, wdata[j].first)

C11_FailedMutationChangesNothing ==
    /\ [][last'.threw =>
             /\ last'.op \in {"set", "setFreq"}
             /\ UNCHANGED <<kind, udata, wdata, wsize>>]_vars
    /\ []((last.op = "set" /\ ~last.threw) =>
             last.args[1] < (IF kind = "Unweighted" THEN Len(udata) ELSE Len(wdata)))
    /\ []((last.op = "setFreq" /\ ~last.threw) =>
             findValPtr(wdata, last.args[1]) # 0)

\* C11 witness: setFreq was rejected on a Weighted container that holds two
\* pairs, for a value that is not equal to either
C11_Witness ==
    /\ kind = "Weighted"
    /\ last.op = "setFreq"
    /\ last.threw
    /\ Len(wdata) = 2
    /\ \A i \in 1..2 : ~isDoubleEqual(wdata[i].first, last.args[1])

----------------------------------------------------------------------------
(* Pure functions of the library applied to one argument: the argument is  *)
(* drawn by the initial state, an action applies a function to it.         *)

InitFn ==
    /\ IdleNP
    /\ IdlePar
    /\ IdleSamp
    /\ IdleRvc
    /\ fin \in SeqsUpTo(Values, MaxLen)
    /\ fout = [op |-> "none"]

notFn == <<npvars, parvars, sampvars, rvcvars>>

\* Weighted w(v); w.getData()
RoundTripGetData ==
    /\ fout.op = "none"
    /\ fout' = [op |-> "Weighted(v).getData()",
                vec |-> W_getData(WeightedFromVector(fin))]
    /\ UNCHANGED <<fin, notFn>>

\* Weighted w(v); Unweighted u(w.getWData()); u.getData()
RoundTripGetWData ==
    /\ fout.op = "none"
    /\ fout' = [op |-> "Unweighted(Weighted(v).getWData())",
                vec |-> UnweightedFromPairs(W_getWData(WeightedFromVector(fin)))]
    /\ UNCHANGED <<fin, notFn>>

NextFn ==
    \/ RoundTripGetData
    \/ RoundTripGetWData

SpecFn == InitFn /\ [][NextFn]_vars

\* number of occurrences of x in the vector v
Occurrences(x, v) == Cardinality({i \in 1..Len(v) : v[i] = x})

\* v and w hold the same values the same number of times
SameMultiset(v, w) ==
    /\ Len(v) = Len(w)
    /\ \A x \in ValuesOf(v) \cup ValuesOf(w) : Occurrences(x, v) = Occurrences(x, w)

RoundTripDone ==
    fout.op \in {"Weighted(v).getData()", "Unweighted(Weighted(v).getWData())"}

\* C9 as stated: building Weighted(v) and expanding it back with getData()
\* (or with Unweighted(Weighted(v).getWData())) yields the same multiset of
\* values as v, for every sequence v.
C9_RoundTripSameMultiset ==
    RoundTripDone => SameMultiset(fout.vec, fin)

\* C9 as amended: the round trip yields a sequence of the same length as v
\* which, position by position in ascending order, holds a value that is
\* isDoubleEqual to the value of v; it is the same multiset as v whenever
\* no two different values of v are isDoubleEqual.
C9_RoundTripUpToDoubleEqual ==
    RoundTripDone =>
       /\ Len(fout.vec) = Len(fin)
       /\ \A i \in 1..Len(fin) : isDoubleEqual(fout.vec[i], StdSort(fin)[i])
       /\ (\A i, j \in 1..Len(fin) :
              fin[i] # fin[j] => ~isDoubleEqual(fin[i], fin[j]))
          => SameMultiset(fout.vec, fin)

\* C9 witness: a round trip of an unsorted sequence with a repeated value
\* and a second, clearly different value.
C9_Witness ==
    /\ fout.op = "Weighted(v).getData()"
    /\ Len(fin) = 3
    /\ fin[1] > fin[2]
    /\ fin[1] = fin[3]
    /\ ~isDoubleEqual(fin[1], fin[2])
    /\ fout.vec # fin

----------------------------------------------------------------------------
(* The parametric families Normal and Lognormal.  mu and sigma are         *)
(* modelled in tenths: the model value 1 is the double 0.1.                *)

MaxParam == 2       \* largest parameter value passed in, in tenths

\* doubles passed as mu, sigma, mean or std
ParamValues == (0 - 1)..MaxParam

\* means and standard deviations of a Statistics given to Lognormal:
\* 1.0 and 2.0, and -1.0, 0, 1.0 and 2.0
StatMeans == {10, 20}
StatStds == {0 - 10, 0, 10, 20}

\* the contents of a double member that no constructor statement has written
Indeterminate == ParamValues

\* mu = 0 and sigma = 0.1 of the default constructors
DefaultMu == 0
DefaultSigma == 1

\* a setSigma that rejects negative values only
setSigmaZeroAllowed(old, sval) ==
    IF sval < 0 THEN [threw |-> TRUE, sigma |-> old]
    ELSE [threw |-> FALSE, sigma |-> sval]

\* Normal::setSigma and Lognormal::setSigma: [threw, sigma]
setSigma(old, sval) ==
    IF sval <= 0 THEN [threw |-> TRUE, sigma |-> old]
    ELSE [threw |-> FALSE, sigma |-> sval]

\* squareRoot(log(1 + pow(s.std, 2) / pow(s.mean, 2))) to the nearest tenth,
\* tabulated over the ratio q = 4 * std^2 / mean^2
LognormalSigmaOf(mean, std) ==
    LET q == (4 * std * std) \div (mean * mean)
    IN  CASE q = 0 -> 0         \* sqrt(log 1)
          [] q = 1 -> 5         \* sqrt(log 1.25) = 0.472
          [] q = 4 -> 8         \* sqrt(log 2)    = 0.833
          [] q = 16 -> 13       \* sqrt(log 5)    = 1.269

\* log(s.mean / sqrt(1 + pow(s.std, 2) / pow(s.mean, 2))) to the nearest tenth:
\* log(mean) - log(1 + q / 4) / 2, both terms tabulated in hundredths
LognormalMuOf(mean, std) ==
    LET q == (4 * std * std) \div (mean * mean)
        logMean == CASE mean = 10 -> 0 [] mean = 20 -> 69
        halfLog == CASE q = 0 -> 0 [] q = 1 -> 11 [] q = 4 -> 35 [] q = 16 -> 80
    IN  (logMean - halfLog + 5) \div 10

\* a constructor body "mu = m; try { setSigma(s); } catch (...) { }" run on
\* a fresh object: a rejected s leaves sigma as the storage happened to be
Construct(k, op, m, s) ==
    /\ pkind = "none"
    /\ pkind' = k
    /\ mu' = m
    /\ \E junk \in Indeterminate : sigma' = setSigma(junk, s).sigma
    /\ plast' = Called(op, FALSE)

notPar == <<npvars, fnvars, sampvars, rvcvars>>

InitPar == IdleNP /\ IdleFn /\ IdlePar /\ IdleSamp /\ IdleRvc

\* Normal::Normal()
NewNormal ==
    /\ pkind = "none"
    /\ pkind' = "Normal"
    /\ mu' = DefaultMu
    /\ sigma' = DefaultSigma
    /\ plast' = Called("Normal()", FALSE)
    /\ UNCHANGED notPar

\* Normal::Normal(const Statistics&)
NewNormalStatistics ==
    /\ \E mean \in ParamValues, std \in ParamValues :
          Construct("Normal", "Normal(Statistics)", mean, std)
    /\ UNCHANGED notPar

\* Normal::Normal(const vector_type&)
NewNormalVector ==
    /\ pkind = "none"
    /\ \E v \in SeqsUpTo(ParamValues, 3) :
          IF Len(v) # 2
          THEN /\ plast' = Called("Normal(vector)", TRUE)
               /\ UNCHANGED <<pkind, mu, sigma>>
          ELSE Construct("Normal", "Normal(vector)", v[1], v[2])
    /\ UNCHANGED notPar

\* Normal::Normal(double, double)
NewNormalPair ==
    /\ \E iMu \in ParamValues, iSig \in ParamValues :
          Construct("Normal", "Normal(mu, sigma)", iMu, iSig)
    /\ UNCHANGED notPar

\* Lognormal::Lognormal()
NewLognormal ==
    /\ pkind = "none"
    /\ pkind' = "Lognormal"
    /\ mu' = DefaultMu
    /\ sigma' = DefaultSigma
    /\ plast' = Called("Lognormal()", FALSE)
    /\ UNCHANGED notPar

\* Lognormal::Lognormal(const vector_type&)
NewLognormalVector ==
    /\ pkind = "none"
    /\ \E v \in SeqsUpTo(ParamValues, 3) :
          IF Len(v) # 2
          THEN /\ plast' = Called("Lognormal(vector)", TRUE)
               /\ UNCHANGED <<pkind, mu, sigma>>
          ELSE Construct("Lognormal", "Lognormal(vector)", v[1], v[2])
    /\ UNCHANGED notPar

\* Lognormal::Lognormal(const Statistics&)
NewLognormalStatistics ==
    /\ \E mean \in StatMeans, std \in StatStds :
          Construct("Lognormal", "Lognormal(Statistics)",
                    LognormalMuOf(mean, std), LognormalSigmaOf(mean, std))
    /\ UNCHANGED notPar

\* Lognormal::Lognormal(double, double)
NewLognormalPair ==
    /\ \E iMu \in ParamValues, iSig \in ParamValues :
          Construct("Lognormal", "Lognormal(mu, sigma)", iMu, iSig)
    /\ UNCHANGED notPar

\* Normal::setMu, Lognormal::setMu
SetMu ==
    /\ pkind # "none"
    /\ \E mval \in ParamValues : mu' = mval
    /\ plast' = Called("setMu", FALSE)
    /\ UNCHANGED <<pkind, sigma>>
    /\ UNCHANGED notPar

\* Normal::setSigma, Lognormal::setSigma called from outside
SetSigma ==
    /\ pkind # "none"
    /\ \E sval \in ParamValues :
          /\ sigma' = setSigma(sigma, sval).sigma
          /\ plast' = CalledWith("setSigma", setSigma(sigma, sval).threw, <<sval>>)
    /\ UNCHANGED <<pkind, mu>>
    /\ UNCHANGED notPar

NextPar ==
    \/ NewNormal
    \/ NewNormalStatistics
    \/ NewNormalVector
    \/ NewNormalPair
    \/ NewLognormal
    \/ NewLognormalVector
    \/ NewLognormalStatistics
    \/ NewLognormalPair
    \/ SetMu
    \/ SetSigma

SpecPar == InitPar /\ [][NextPar]_vars

\* C15: setSigma(s) with s <= 0 on a Normal or Lognormal throws to the caller
\* and leaves mu and sigma as they were; setSigma(s) with s > 0 returns,
\* makes sigma equal to s and leaves mu as it was.
C15_SetSigmaRejectsNonPositive ==
    [][plast'.op = "setSigma" =>
          LET s == plast'.args[1]
          IN  /\ pkind' = pkind
              /\ mu' = mu
              /\ IF s <= 0 THEN plast'.threw /\ sigma' = sigma
                 ELSE ~plast'.threw /\ sigma' = s]_vars

\* C15 witness: a Lognormal whose sigma and mu were set, after a rejected
\* setSigma(0)
C15_Witness ==
    /\ pkind = "Lognormal"
    /\ plast.op = "setSigma"
    /\ plast.threw
    /\ plast.args = <<0>>
    /\ sigma = 2
    /\ mu = 0 - 1

\* C2: every Normal or Lognormal object has sigma > 0 in every reachable
\* state, after any constructor (one given a non-positive sigma included)
\* and after any sequence of setMu and setSigma calls.
C2_SigmaPositive ==
    pkind # "none" => sigma > 0

----------------------------------------------------------------------------
(* Round-robin sampling of the nonparametric containers.  Each of the four *)
(* sampling functions keeps its cursor in a function-local static.         *)

SampLen == 2        \* longest data of a sampled container
MaxCount == 3       \* how far the static counters are advanced in total
MaxN == 2           \* largest n passed to sample(n)

\* the container objects that exist while sampling
Instances == {"a", "b"}

\* Unweighted::get: [threw, val]
U_get(data, k) ==
    IF k >= Len(data) THEN [threw |-> TRUE, val |-> 0]
    ELSE [threw |-> FALSE, val |-> data[k + 1]]

\* the loop of Weighted::get: i after "while (k >= sum) sum += data.at(i++).second"
RECURSIVE GetScan(_, _, _, _)
GetScan(data, k, i, sum) ==
    IF k >= sum
    THEN IF i >= Len(data) THEN [threw |-> TRUE, i |-> i]
         ELSE GetScan(data, k, i + 1, sum + data[i + 1].second)
    ELSE [threw |-> FALSE, i |-> i]

\* Weighted::get: [threw, val]
W_get(w, k) ==
    LET r == GetScan(w.data, k, 0, 0)
        i == IF r.i # 0 THEN r.i - 1 ELSE r.i
    IN  IF r.threw \/ i >= Len(w.data) THEN [threw |-> TRUE, val |-> 0]
        ELSE [threw |-> FALSE, val |-> w.data[i + 1].first]

UnweightedObject(data) == [class |-> "Unweighted", data |-> data]
WeightedObject(w) == [class |-> "Weighted", w |-> w]

\* getSize() of a container, as a number (the sizes of the model are below 2^16)
SizeOf(c) == IF c.class = "Unweighted" THEN Len(c.data) ELSE c.w.size[1]

\* get(k) through the virtual call
Get(c, k) == IF c.class = "Unweighted" THEN U_get(c.data, k) ELSE W_get(c.w, k)

\* the static a call of sampleSingle() or sample() on c uses
SingleCounter(c) == IF c.class = "Unweighted" THEN "USingle" ELSE "WSingle"
SampleCounter(c) == IF c.class = "Unweighted" THEN "USample" ELSE "WSample"

\* sampleSingle(): "return get(count++ % size)", [count, threw, val]
sampleSingle(c, cnt) ==
    LET g == Get(c, Mod32(cnt, SizeOf(c)))
    IN  [count |-> Inc32(cnt), threw |-> g.threw, val |-> g.val]

\* the loop of sample(n): "samples.push_back(get(count++ % size))" n times
RECURSIVE SampleLoop(_, _, _, _)
SampleLoop(c, cnt, n, samples) ==
    IF n = 0 THEN [count |-> cnt, threw |-> FALSE, vec |-> samples]
    ELSE LET g == Get(c, Mod32(cnt, SizeOf(c)))
         IN  IF g.threw THEN [count |-> Inc32(cnt), threw |-> TRUE, vec |-> <<>>]
             ELSE SampleLoop(c, Inc32(cnt), n - 1, Append(samples, g.val))

\* sample(n): "vector_type samples(n);" holds n zeros before the loop appends
sample(c, cnt, n) == SampleLoop(c, cnt, n, [j \in 1..n |-> 0])

\* the containers that are sampled: built by a constructor from a non-empty
\* sequence (size 0 makes "count++ % size" a division by zero)
SampleContainers ==
    LET vs == SeqsUpTo(Values, SampLen) \ {<<>>}
    IN  {UnweightedObject(UnweightedFromVector(v)) : v \in vs}
        \cup {WeightedObject(WeightedFromVector(v)) : v \in vs}

\* how far the four counters have been advanced
Advanced ==
    count.USingle[1] + count.USample[1] + count.WSingle[1] + count.WSample[1]

notSamp == <<npvars, fnvars, parvars, rvcvars>>

InitSamp ==
    /\ IdleNP /\ IdleFn /\ IdlePar /\ IdleRvc
    /\ inst \in [Instances -> SampleContainers]
    /\ count = [USingle |-> <<0, 0>>, USample |-> <<0, 0>>,
                WSingle |-> <<0, 0>>, WSample |-> <<0, 0>>]
    /\ calls = [i \in Instances |-> 0]
    /\ sret = [op |-> "none"]

\* inst[i].sampleSingle()
SampleSingle ==
    /\ Advanced < MaxCount
    /\ \E i \in Instances :
          LET k == SingleCounter(inst[i])
              r == sampleSingle(inst[i], count[k])
          IN  /\ count' = [count EXCEPT ![k] = r.count]
              /\ calls' = [calls EXCEPT ![i] = @ + 1]
              /\ sret' = [op |-> "sampleSingle", i |-> i,
                          threw |-> r.threw, val |-> r.val]
    /\ UNCHANGED inst
    /\ UNCHANGED notSamp

\* inst[i].sample(n)
Sample ==
    /\ \E i \in Instances, n \in 0..MaxN :
          LET k == SampleCounter(inst[i])
              r == sample(inst[i], count[k], n)
          IN  /\ Advanced + n <= MaxCount
              /\ count' = [count EXCEPT ![k] = r.count]
              /\ sret' = [op |-> "sample", i |-> i, n |-> n,
                          threw |-> r.threw, vec |-> r.vec]
    /\ UNCHANGED <<inst, calls>>
    /\ UNCHANGED notSamp

NextSamp ==
    \/ SampleSingle
    \/ Sample

SpecSamp == InitSamp /\ [][NextSamp]_vars

\* the values a container stores
StoredValues(c) ==
    IF c.class = "Unweighted" THEN ValuesOf(c.data) ELSE FirstsOf(c.w.data)

\* C3: the sampling cursor is per instance: the i-th sampleSingle() call on
\* an instance (i counted from 0 over the calls on that instance only)
\* returns get(i mod s), whatever calls are made on other instances.
C3_CursorPerInstance ==
    sret.op = "sampleSingle" =>
       /\ ~sret.threw
       /\ sret.val = Get(inst[sret.i],
                         (calls[sret.i] - 1) % SizeOf(inst[sret.i])).val

\* C4: sample(n) returns a vector of exactly n values, each a value stored
\* in the container, taken in round-robin order; for n = 0 it is empty.
C4_SampleReturnsNStoredValues ==
    sret.op = "sample" =>
       LET c == inst[sret.i]
       IN  /\ ~sret.threw
           /\ Len(sret.vec) = sret.n
           /\ \A j \in 1..Len(sret.vec) : sret.vec[j] \in StoredValues(c)
           /\ \E start \in 0..(SizeOf(c) - 1) :
                 \A j \in 1..Len(sret.vec) :
                    sret.vec[j] = Get(c, (start + j - 1) % SizeOf(c)).val

----------------------------------------------------------------------------
(* RandomVariableContainer and Translation::sampleMC.  A member is a       *)
(* pointer to one of the sampled containers or to a parametric object; a   *)
(* parametric object draws from a random generator.                        *)

MaxMembers == 3     \* most members of a RandomVariableContainer
MaxDraws == 4       \* most sampleSingle() calls made by one sampleMC call

\* the parametric objects a container may point to (a Lognormal is sampled
\* through the same Parametric::sampleSingle)
ParametricMembers == {"Normal"}

\* what the generator behind Normal::sample and Lognormal::sample may return
ParamDraws == {0, 1}

\* the combining functions passed as f_ptr
Equations == {"nullptr", "cal", "sum"}

RECURSIVE SeqSum(_)
SeqSum(v) == IF v = <<>> THEN 0 ELSE Head(v) + SeqSum(Tail(v))

\* the message setEquation and equation throw for a null f_ptr
NotInitialized == "Equation function not initialized"

\* cal() of the test program: exactly three factors
cal(factors) ==
    IF Len(factors) # 3
    THEN [threw |-> TRUE, what |-> "cal() must be given three factors", val |-> 0]
    ELSE [threw |-> FALSE, what |-> "", val |-> factors[1] + factors[2] + factors[3]]

\* (*eq)(v) for a function that is there
Invoke(eq, v) ==
    CASE eq = "cal" -> cal(v)
      [] eq = "sum" -> [threw |-> FALSE, what |-> "", val |-> SeqSum(v)]

\* an equation that calls whatever eq holds
equationUnguarded(eq, v) ==
    IF eq = "nullptr" THEN [threw |-> FALSE, what |-> "", val |-> 0]
    ELSE Invoke(eq, v)

\* RandomVariableContainer::equation: [threw, what, val]
equation(eq, v) ==
    IF eq = "nullptr" THEN [threw |-> TRUE, what |-> NotInitialized, val |-> 0]
    ELSE Invoke(eq, v)

\* the inner loop of sampleMC from member j on, in iteration i: st holds
\* the counters, the per-instance call counts, args and the trace so far
RECURSIVE MCInner(_, _, _, _, _)
MCInner(rvs, i, j, st, draws) ==
    IF j > Len(rvs) THEN st
    ELSE LET m == rvs[j]
         IN  IF m \in Instances
             THEN LET k == SingleCounter(inst[m])
                      r == sampleSingle(inst[m], st.count[k])
                      st1 == [st EXCEPT !.count[k] = r.count,
                                        !.calls[m] = @ + 1]
                  IN  IF r.threw THEN [st1 EXCEPT !.threw = TRUE]
                      ELSE MCInner(rvs, i, j + 1,
                              [st1 EXCEPT !.args[j] = r.val,
                                          !.log = Append(@, [iter |-> i, pos |-> j,
                                                    member |-> m, val |-> r.val])],
                              draws)
             ELSE MCInner(rvs, i, j + 1,
                     [st EXCEPT !.args[j] = draws[i][j],
                                !.log = Append(@, [iter |-> i, pos |-> j,
                                          member |-> m, val |-> draws[i][j]])],
                     draws)

\* the outer loop of sampleMC from iteration i on
RECURSIVE MCOuter(_, _, _, _, _, _)
MCOuter(rvs, eq, n, i, st, draws) ==
    IF i > n THEN st
    ELSE LET st1 == MCInner(rvs, i, 1, st, draws)
             e == equation(eq, st1.args)
         IN  IF st1.threw THEN st1
             ELSE IF e.threw
             THEN [st1 EXCEPT !.threw = TRUE, !.passed = Append(@, st1.args)]
             ELSE MCOuter(rvs, eq, n, i + 1,
                     [st1 EXCEPT !.passed = Append(@, st1.args),
                                 !.samples = Append(@, e.val)],
                     draws)

\* T(samples) for the target container class T
MakeTarget(T, samples) ==
    IF T = "Unweighted" THEN UnweightedObject(UnweightedFromVector(samples))
    ELSE WeightedObject(WeightedFromVector(samples))

\* the state sampleMC starts from: args(rvc->getSize()), samples empty
MCStart(rvs) ==
    [count |-> count, calls |-> calls, args |-> [j \in 1..Len(rvs) |-> 0],
     log |-> <<>>, passed |-> <<>>, samples |-> <<>>, threw |-> FALSE]

\* a sampleMC that stops one iteration early
sampleMCShort(rvs, eq, T, n, draws) ==
    LET st == MCOuter(rvs, eq, IF n > 0 THEN n - 1 ELSE 0, 1, MCStart(rvs), draws)
    IN  [st |-> st, out |-> IF st.threw THEN <<>> ELSE MakeTarget(T, st.samples)]

\* Translation::sampleMC<T>(rvc, n): the final loop state and the container returned
sampleMC(rvs, eq, T, n, draws) ==
    LET st == MCOuter(rvs, eq, n, 1, MCStart(rvs), draws)
    IN  [st |-> st, out |-> IF st.threw THEN <<>> ELSE MakeTarget(T, st.samples)]

\* the containers pointed to by the members
MCContainers ==
    {UnweightedObject(<<2, 0>>), WeightedObject(WeightedFromVector(<<0, 2>>))}

\* the positions of the members that draw from a generator
Generated(rvs) == {j \in 1..Len(rvs) : rvs[j] \in ParametricMembers}

\* how many members point to a sampled container
Pointers(rvs) == Cardinality({j \in 1..Len(rvs) : rvs[j] \in Instances})

notRvc == <<npvars, fnvars, parvars>>

InitMC ==
    /\ IdleNP /\ IdleFn /\ IdlePar /\ IdleRvc
    /\ inst \in [Instances -> MCContainers]
    /\ count = [USingle |-> <<0, 0>>, USample |-> <<0, 0>>,
                WSingle |-> <<0, 0>>, WSample |-> <<0, 0>>]
    /\ calls = [i \in Instances |-> 0]
    /\ sret = [op |-> "none"]

\* RandomVariableContainer::add
RvcAdd ==
    /\ Len(rvcData) < MaxMembers
    /\ \E rv \in Instances \cup ParametricMembers :
          rvcData' = Append(rvcData, rv)
    /\ mc' = [op |-> "none"]
    /\ UNCHANGED <<rvcEq, sampvars>>
    /\ UNCHANGED notRvc

\* a setEquation that stores whatever it is given
RvcSetEquationUnchecked ==
    /\ \E func \in Equations :
          /\ rvcEq' = func
          /\ mc' = [op |-> "setEquation", func |-> func, threw |-> FALSE,
                    what |-> ""]
    /\ UNCHANGED <<rvcData, sampvars>>
    /\ UNCHANGED notRvc

\* RandomVariableContainer::setEquation
RvcSetEquation ==
    /\ \E func \in Equations :
          /\ IF func = "nullptr" THEN UNCHANGED rvcEq ELSE rvcEq' = func
          /\ mc' = [op |-> "setEquation", func |-> func, threw |-> func = "nullptr",
                    what |-> IF func = "nullptr" THEN NotInitialized ELSE ""]
    /\ UNCHANGED <<rvcData, sampvars>>
    /\ UNCHANGED notRvc

\* the member vectors the value constructor is given
MemberVectors == SeqsUpTo(Instances \cup ParametricMembers, MaxMembers)

\* RandomVariableContainer::RandomVariableContainer(func, v), in place of the
\* default constructor: data = v, then setEquation(func); for a null func the
\* constructor throws, no such object exists and the program is left with
\* the container it had
RvcNew ==
    /\ rvcData = <<>>
    /\ rvcEq = "nullptr"
    /\ \E func \in Equations, v \in MemberVectors :
          /\ IF func = "nullptr" THEN UNCHANGED <<rvcData, rvcEq>>
             ELSE rvcData' = v /\ rvcEq' = func
          /\ mc' = [op |-> "RandomVariableContainer", func |-> func,
                    threw |-> func = "nullptr"]
    /\ UNCHANGED sampvars
    /\ UNCHANGED notRvc

\* the vectors equation() is called with
EquationArgs == SeqsUpTo(ParamDraws, MaxMembers)

\* RandomVariableContainer::equation(v)
RvcEquation ==
    /\ \E v \in EquationArgs :
          mc' = [op |-> "equation", v |-> v, ret |-> equation(rvcEq, v)]
    /\ UNCHANGED <<rvcData, rvcEq, sampvars>>
    /\ UNCHANGED notRvc

\* Translation::sampleMC<T>(rvc, n)
SampleMC ==
    /\ \E n \in 0..MaxN, T \in {"Unweighted", "Weighted"} :
          /\ n * Len(rvcData) <= MaxDraws
          /\ Advanced + n * Pointers(rvcData) <= MaxCount
          /\ \E draws \in [1..n -> [Generated(rvcData) -> ParamDraws]] :
                LET r == sampleMC(rvcData, rvcEq, T, n, draws)
                IN  /\ count' = r.st.count
                    /\ calls' = r.st.calls
                    /\ mc' = [op |-> "sampleMC", n |-> n, T |-> T,
                              threw |-> r.st.threw, log |-> r.st.log,
                              passed |-> r.st.passed, out |-> r.out]
    /\ UNCHANGED <<inst, sret, rvcData, rvcEq>>
    /\ UNCHANGED notRvc

NextMC ==
    \/ RvcAdd
    \/ RvcSetEquation
    \/ SampleMC

SpecMC == InitMC /\ [][NextMC]_vars

\* C7: a sampleMC<T>(rvc, n) that returns has run exactly n iterations; in
\* each it has called sampleSingle() exactly once on every member, in stored
\* order, and has passed the combining function a vector of length getSize()
\* whose position j holds the value drawn from member j in that iteration;
\* the container returned holds exactly n results.
C7_SampleMCDrawsInStoredOrder ==
    (mc.op = "sampleMC" /\ ~mc.threw) =>
       LET m == Len(rvcData)
       IN  /\ Len(mc.passed) = mc.n
           /\ Len(mc.log) = mc.n * m
           /\ \A i \in 1..mc.n :
                 /\ Len(mc.passed[i]) = m
                 /\ \A j \in 1..m :
                       LET e == mc.log[(i - 1) * m + j]
                       IN  /\ e.iter = i
                           /\ e.pos = j
                           /\ e.member = rvcData[j]
                           /\ mc.passed[i][j] = e.val
           /\ mc.out.class = mc.T
           /\ SizeOf(mc.out) = mc.n

\* the RandomVariableContainer on its own: construction, add, setEquation
\* and equation
NextEq ==
    \/ RvcNew
    \/ RvcAdd
    \/ RvcSetEquation
    \/ RvcEquation

SpecEq == InitMC /\ [][NextEq]_vars

\* C14: equation(v) throws the "not initialized" error exactly when no
\* combining function is stored, and otherwise gives what the stored function
\* gives for v; a function is stored once setEquation or the value
\* constructor has succeeded with it, and it stays stored: a null argument
\* is rejected and leaves the function that was there.
C14_EquationThrowsIffUnset ==
    /\ []((mc.op = "equation") =>
             /\ (mc.ret.threw /\ mc.ret.what = NotInitialized) <=> rvcEq = "nullptr"
             /\ rvcEq # "nullptr" => mc.ret = Invoke(rvcEq, mc.v))
    /\ [][/\ rvcEq # "nullptr" => rvcEq' # "nullptr"
          /\ rvcEq' # rvcEq =>
                /\ mc'.op \in {"setEquation", "RandomVariableContainer"}
                /\ ~mc'.threw
                /\ rvcEq' = mc'.func
          /\ (mc'.op \in {"setEquation", "RandomVariableContainer"} /\ mc' # mc) =>
                IF mc'.func = "nullptr"
                THEN mc'.threw /\ rvcEq' = rvcEq
                ELSE ~mc'.threw /\ rvcEq' = mc'.func]_vars

\* C14 witness: equation() returned the sum of three factors through cal
\* after a null setEquation was rejected earlier on
C14_Witness ==
    /\ mc.op = "equation"
    /\ rvcEq = "cal"
    /\ mc.v = <<1, 0, 1>>
    /\ ~mc.ret.threw
    /\ mc.ret.val = 2

\* C26: setEquation(nullptr) throws the "not initialized" error and leaves
\* the stored function and the members as they were; so from the moment a
\* function is stored, whatever add and setEquation calls follow, rejected
\* ones included, equation() never throws "not initialized" again.
C26_NullSetEquationKeepsFunction ==
    /\ [][(mc'.op = "setEquation" /\ mc'.func = "nullptr") =>
             /\ mc'.threw
             /\ mc'.what = NotInitialized
             /\ rvcEq' = rvcEq
             /\ rvcData' = rvcData]_vars
    /\ [](rvcEq # "nullptr" =>
             []~(/\ mc.op = "equation"
                 /\ mc.ret.threw
                 /\ mc.ret.what = NotInitialized))

\* C26 witness: a container of two members with a function stored, right
\* after a rejected setEquation(nullptr)
C26_Witness ==
    /\ mc.op = "setEquation"
    /\ mc.func = "nullptr"
    /\ mc.threw
    /\ rvcEq = "sum"
    /\ Len(rvcData) = 2

\* what the next sampleSingle() on member m returns with the counters cnt
NextSingle(m, cnt) == sampleSingle(inst[m], cnt[SingleCounter(inst[m])]).val

\* C29: a sampleMC(rvc, n) with n >= 1 that fails because the container has
\* no combining function leaves the sampling of the nonparametric members
\* where it was: the next sampleSingle() on each of them returns the
\* element it would have returned without the call.
C29_FailedSampleMCKeepsCursors ==
    [][(/\ mc'.op = "sampleMC"
        /\ mc'.n >= 1
        /\ mc'.threw
        /\ rvcEq = "nullptr") =>
          \A j \in 1..Len(rvcData) :
             rvcData[j] \in Instances =>
                NextSingle(rvcData[j], count') = NextSingle(rvcData[j], count)]_vars

\* C7 witness: two iterations over a parametric and a nonparametric member
\* that returned different values, combined into a Weighted container
C7_Witness ==
    /\ mc.op = "sampleMC"
    /\ ~mc.threw
    /\ mc.n = 2
    /\ mc.T = "Weighted"
    /\ Len(rvcData) = 2
    /\ rvcData[1] \in ParametricMembers
    /\ rvcData[2] \in Instances
    /\ mc.passed[1] # mc.passed[2]
    /\ mc.passed[1][1] # mc.passed[1][2]

----------------------------------------------------------------------------
(* Translation::sampleLH.  The stratified probabilities are computed in    *)
(* floating point: a double is modelled as a binary floating-point number  *)
(* with a significand of MantBits bits instead of 53, held as a fraction,  *)
(* and every operation rounds to nearest, ties to even.                    *)

MantBits == 3       \* bits of the significand of the model's floating-point numbers
MaxCells == 2       \* most stratified probabilities (nVar * nSam) of one sampleLH call

RECURSIVE GCD(_, _)
GCD(a, b) == IF b = 0 THEN a ELSE GCD(b, a % b)

\* a fraction in lowest terms
Norm(f) ==
    IF f.num = 0 THEN Frac(0, 1)
    ELSE LET g == GCD(f.num, f.den) IN Frac(f.num \div g, f.den \div g)

\* n / d rounded to an integer, ties to even
RoundHalfEven(n, d) ==
    LET q == n \div d
        r == n % d
    IN  IF 2 * r < d THEN q
        ELSE IF 2 * r > d THEN q + 1
        ELSE IF q % 2 = 0 THEN q ELSE q + 1

\* the floating-point number nearest to n / d >= 0: scale by powers of two
\* until the quotient has MantBits bits, round it, and scale back
RECURSIVE RoundToDouble(_, _)
RoundToDouble(n, d) ==
    IF n = 0 THEN Frac(0, 1)
    ELSE IF n >= d * 2^MantBits
    THEN LET r == RoundToDouble(n, 2 * d) IN Frac(2 * r.num, r.den)
    ELSE IF n < d * 2^(MantBits - 1)
    THEN LET r == RoundToDouble(2 * n, d) IN Frac(r.num, 2 * r.den)
    ELSE Frac(RoundHalfEven(n, d), 1)

\* what dis(gen) of uniform_real_distribution<>(0, 1) may return, in units
\* of 2^-MantBits: the smallest draws, one half, and the largest double below 1
LHDraws == {0, 1, 2^(MantBits - 1), 2^MantBits - 1}

\* (nSampleVec[j] + U[i][j]) / nSam: the sum is rounded, then the quotient
StratifiedProbability(stratum, u, nSam) ==
    LET sum == RoundToDouble(stratum * 2^MantBits + u, 2^MantBits)
    IN  Norm(RoundToDouble(sum.num, sum.den * nSam))

\* the orders std::random_shuffle may leave 0 .. n-1 in
Shuffles(n) ==
    {p \in [1..n -> 0..(n - 1)] : \A a, b \in 1..n : a # b => p[a] # p[b]}

\* a sampleSingleIcdf that lets an Unweighted answer as a Weighted does
sampleSingleIcdfEcho(m, y) ==
    IF m \in Instances
    THEN [threw |-> FALSE, val |-> [icdf |-> "Weighted", y |-> y]]
    ELSE IF y.num < 0 \/ y.num > y.den THEN [threw |-> TRUE, val |-> <<>>]
         ELSE [threw |-> FALSE, val |-> [icdf |-> m, y |-> y]]

\* sampleSingleIcdf(y) through the virtual call: Unweighted throws, Weighted
\* returns y, a parametric member returns icdf(y), kept as a term
sampleSingleIcdf(m, y) ==
    IF m \in Instances
    THEN IF inst[m].class = "Unweighted" THEN [threw |-> TRUE, val |-> <<>>]
         ELSE [threw |-> FALSE, val |-> [icdf |-> "Weighted", y |-> y]]
    ELSE IF y.num < 0 \/ y.num > y.den THEN [threw |-> TRUE, val |-> <<>>]
         ELSE [threw |-> FALSE, val |-> [icdf |-> m, y |-> y]]

\* the loop over the variables for sample j: args from variable i on
RECURSIVE LHInner(_, _, _, _, _)
LHInner(rvs, X, j, i, args) ==
    IF i > Len(rvs) THEN [threw |-> FALSE, args |-> args]
    ELSE LET r == sampleSingleIcdf(rvs[i], X[i][j])
         IN  IF r.threw THEN [threw |-> TRUE, args |-> args]
             ELSE LHInner(rvs, X, j, i + 1, Append(args, r.val))

\* the loop over the samples from sample j on; the combining function
\* throws or not by the number of factors, its value is kept as a term
RECURSIVE LHOuter(_, _, _, _, _, _)
LHOuter(rvs, eq, X, nSam, j, samples) ==
    IF j > nSam THEN [threw |-> FALSE, samples |-> samples]
    ELSE LET a == LHInner(rvs, X, j, 1, <<>>)
         IN  IF a.threw \/ equation(eq, [i \in 1..Len(rvs) |-> 0]).threw
             THEN [threw |-> TRUE, samples |-> samples]
             ELSE LHOuter(rvs, eq, X, nSam, j + 1,
                          Append(samples, [eq |-> eq, args |-> a.args]))

\* Translation::sampleLH<T>(rvc, nSam) for the draws U and the shuffles
sampleLH(rvs, eq, T, nSam, U, shuffled) ==
    LET X == [i \in 1..Len(rvs) |->
                [j \in 1..nSam |->
                    StratifiedProbability(shuffled[i][j], U[i][j], nSam)]]
        r == LHOuter(rvs, eq, X, nSam, 1, <<>>)
    IN  [X |-> X, threw |-> r.threw,
         out |-> IF r.threw THEN <<>>
                 ELSE [class |-> T, size |-> Len(r.samples), samples |-> r.samples]]

InitLH ==
    /\ IdleNP /\ IdleFn /\ IdlePar /\ IdleRvc
    /\ inst = [i \in Instances |->
                 IF i = "a" THEN UnweightedObject(<<2, 0>>)
                 ELSE WeightedObject(WeightedFromVector(<<0, 2>>))]
    /\ count = [USingle |-> <<0, 0>>, USample |-> <<0, 0>>,
                WSingle |-> <<0, 0>>, WSample |-> <<0, 0>>]
    /\ calls = [i \in Instances |-> 0]
    /\ sret = [op |-> "none"]

\* Translation::sampleLH<T>(rvc, nSam); the call changes no object, so a
\* call that follows another sampleLH starts from the state the first did
SampleLH ==
    /\ mc.op # "sampleLH"
    /\ \E nSam \in 0..MaxN, T \in {"Unweighted", "Weighted"} :
          /\ nSam * Len(rvcData) <= MaxCells
          /\ \E U \in [1..Len(rvcData) -> [1..nSam -> LHDraws]],
                shuffled \in [1..Len(rvcData) -> Shuffles(nSam)] :
                LET r == sampleLH(rvcData, rvcEq, T, nSam, U, shuffled)
                IN  mc' = [op |-> "sampleLH", nSam |-> nSam, T |-> T,
                           X |-> r.X, threw |-> r.threw, out |-> r.out]
    /\ UNCHANGED <<sampvars, rvcData, rvcEq>>
    /\ UNCHANGED notRvc

\* Unweighted::sampleIcdf(n, v) throws; Weighted::sampleIcdf(n, v) returns
\* {n, v.size()}
sampleIcdf(m, n, v) ==
    IF inst[m].class = "Unweighted" THEN [threw |-> TRUE, val |-> <<>>]
    ELSE [threw |-> FALSE, val |-> <<n, Len(v)>>]

\* the probabilities the containers are asked for directly
IcdfArgs == {Frac(u, 2^MantBits) : u \in LHDraws} \cup {Frac(1, 1), Frac(2, 1)}

\* sampleSingleIcdf(y) called on a container
SampleSingleIcdf ==
    /\ \E m \in Instances, y \in IcdfArgs :
          LET r == sampleSingleIcdf(m, y)
          IN  mc' = [op |-> "sampleSingleIcdf", inst |-> m, threw |-> r.threw,
                     val |-> r.val]
    /\ UNCHANGED <<sampvars, rvcData, rvcEq>>
    /\ UNCHANGED notRvc

\* sampleIcdf(n, v) called on a container
SampleIcdf ==
    /\ \E m \in Instances, n \in 0..MaxN, v \in SeqsUpTo({Frac(1, 2)}, MaxN) :
          LET r == sampleIcdf(m, n, v)
          IN  mc' = [op |-> "sampleIcdf", inst |-> m, threw |-> r.threw,
                     val |-> r.val]
    /\ UNCHANGED <<sampvars, rvcData, rvcEq>>
    /\ UNCHANGED notRvc

NextLH ==
    \/ RvcAdd
    \/ RvcSetEquation
    \/ SampleLH
    \/ SampleSingleIcdf
    \/ SampleIcdf

SpecLH == InitLH /\ [][NextLH]_vars

StratumOf(n, x) == (n * x.num) \div x.den

\* C8: in a sampleLH(rvc, n) that returns, for every member variable i the
\* stratum indices floor(n * X[i][j]), j = 0..n-1, are a permutation of
\* 0..n-1 and every X[i][j] lies in [0,1), whatever the uniform draws and
\* the shuffle.
C8_StrataHitOnce ==
    (mc.op = "sampleLH" /\ ~mc.threw) =>
       \A i \in 1..Len(mc.X) :
          /\ \A j \in 1..mc.nSam :
                mc.X[i][j].num >= 0 /\ mc.X[i][j].num < mc.X[i][j].den
          /\ {StratumOf(mc.nSam, mc.X[i][j]) : j \in 1..mc.nSam}
                = 0..(mc.nSam - 1)

----------------------------------------------------------------------------
(* Moments of the nonparametric containers and Translation::fit.  A mean   *)
(* is held as an exact fraction of epsilons; a standard deviation, the     *)
(* square root of a fraction, is held as that fraction; 0 / 0 is NaN.      *)

NaN == Frac(0, 0)
IsNaN(f) == f.den = 0

\* a quotient of two doubles: 0 / 0 is NaN, otherwise the fraction in lowest terms
Quotient(n, d) == IF d = 0 THEN NaN ELSE Norm(Frac(n, d))

\* the accumulate of Unweighted::std: the sum of (x - mean)^2 with mean = s / n,
\* in units of 1 / n^2
RECURSIVE SquaredDeviations(_, _, _)
SquaredDeviations(v, s, n) ==
    IF v = <<>> THEN 0
    ELSE (n * Head(v) - s) * (n * Head(v) - s) + SquaredDeviations(Tail(v), s, n)

\* Unweighted::mean
U_mean(data) == Quotient(SeqSum(data), Len(data))

\* Unweighted::std: the divisor is data.size() - 1
U_std(data) ==
    LET n == Len(data)
    IN  [sqrt |-> Quotient(SquaredDeviations(data, SeqSum(data), n), n * n * (n - 1))]

\* the loop of Unweighted::mode over the sorted values from position i on
RECURSIVE ModeScan(_, _, _, _, _, _)
ModeScan(tmp, i, runValue, runCount, highestRunCount, modes) ==
    IF i > Len(tmp) THEN modes
    ELSE IF isDoubleEqual(runValue, tmp[i])
    THEN IF runCount + 1 > highestRunCount
         THEN ModeScan(tmp, i + 1, runValue, runCount + 1, runCount + 1,
                       IF ~isDoubleEqual(Head(modes), runValue)
                       THEN <<runValue>> ELSE modes)
         ELSE ModeScan(tmp, i + 1, runValue, runCount + 1, highestRunCount,
                       IF runCount + 1 = highestRunCount
                       THEN Append(modes, runValue) ELSE modes)
    ELSE ModeScan(tmp, i + 1, tmp[i], 0, highestRunCount, modes)

\* Unweighted::mode of a non-empty container
U_mode(data) ==
    LET tmp == StdSort(data)
    IN  Head(ModeScan(tmp, 2, tmp[1], 1, 1, <<tmp[1]>>))

\* the accumulate of Weighted::mean: the sum of first * second
RECURSIVE WeightedSum(_)
WeightedSum(pv) ==
    IF pv = <<>> THEN 0
    ELSE Head(pv).first * Head(pv).second + WeightedSum(Tail(pv))

\* Weighted::mean (the sizes of the model are below 2^16)
W_mean(w) == Quotient(WeightedSum(w.data), w.size[1])

\* Weighted::std: over getData(), the divisor is size
W_std(w) ==
    LET n == w.size[1]
        samples == W_getData(w)
    IN  [sqrt |-> Quotient(SquaredDeviations(samples, WeightedSum(w.data), n),
                           n * n * n)]

\* the loop of Weighted::mode from pair i on
RECURSIVE WModeScan(_, _, _)
WModeScan(data, i, modes) ==
    IF i > Len(data) THEN modes
    ELSE IF data[i].second > modes[1].second
    THEN WModeScan(data, i + 1, <<data[i]>>)
    ELSE IF data[i].second = modes[1].second
    THEN WModeScan(data, i + 1, Append(modes, data[i]))
    ELSE WModeScan(data, i + 1, modes)

\* Weighted::mode
W_mode(w) == WModeScan(w.data, 1, <<Pair(0, 0)>>)[1].first

\* RandomVariable::stats through the virtual calls
stats(c) ==
    IF c.class = "Unweighted"
    THEN [mean |-> U_mean(c.data), mode |-> U_mode(c.data), std |-> U_std(c.data)]
    ELSE [mean |-> W_mean(c.w), mode |-> W_mode(c.w), std |-> W_std(c.w)]

\* "sval <= 0" for a standard deviation: false for NaN
NotPositive(sd) == ~IsNaN(sd.sqrt) /\ sd.sqrt.num <= 0

\* Normal::Normal(const Statistics&): sigma is written unless setSigma throws
NormalFromStatistics(s, junk) ==
    [mu |-> s.mean,
     sigma |-> IF NotPositive(s.std) THEN [written |-> FALSE, val |-> junk]
               ELSE [written |-> TRUE, val |-> s.std]]

\* Translation::fit<Normal>(samples)
fit(c, junk) == NormalFromStatistics(stats(c), junk)

notFit == <<npvars, parvars, sampvars, rvcvars>>

InitFit ==
    /\ IdleNP /\ IdlePar /\ IdleSamp /\ IdleRvc
    /\ fin \in SeqsUpTo(Values, MaxLen) \ {<<>>}
    /\ fout = [op |-> "none"]

\* Translation::fit<Normal>(&u) for Unweighted u(v)
FitUnweighted ==
    /\ fout.op = "none"
    /\ \E junk \in Indeterminate :
          LET c == UnweightedObject(UnweightedFromVector(fin))
          IN  fout' = [op |-> "fit<Normal>", c |-> c, normal |-> fit(c, junk)]
    /\ UNCHANGED <<fin, notFit>>

\* Translation::fit<Normal>(&w) for Weighted w(v)
FitWeighted ==
    /\ fout.op = "none"
    /\ \E junk \in Indeterminate :
          LET c == WeightedObject(WeightedFromVector(fin))
          IN  fout' = [op |-> "fit<Normal>", c |-> c, normal |-> fit(c, junk)]
    /\ UNCHANGED <<fin, notFit>>

NextFit ==
    \/ FitUnweighted
    \/ FitWeighted

SpecFit == InitFit /\ [][NextFit]_vars

\* C12: for every nonparametric container c that holds at least one value,
\* fit<Normal>(c) returns a Normal whose mu equals c.mean() and whose sigma
\* equals c.std().
C12_FitIsMethodOfMoments ==
    fout.op = "fit<Normal>" =>
       LET s == stats(fout.c)
       IN  /\ fout.normal.mu = s.mean
           /\ fout.normal.sigma.written
           /\ ~IsNaN(s.std.sqrt)
           /\ fout.normal.sigma.val = s.std

----------------------------------------------------------------------------
(* Mutations of an Unweighted container (checked under SpecNP). *)

\* C19: on an Unweighted container append(d) raises getSize() by exactly 1,
\* stores d at the last position and leaves the earlier positions as they
\* were; set(k, d) with k < size makes get(k) return d and leaves the size
\* and every other position as they were; no operation lowers getSize().
C19_UnweightedAppendSetFrame ==
    [][(kind = "Unweighted") =>
          LET n == Len(udata)
          IN  /\ kind' = "Unweighted"
              /\ Len(udata') >= n
              /\ last'.op = "append" =>
                    /\ Len(udata') = n + 1
                    /\ udata'[n + 1] = last'.args[1]
                    /\ \A i \in 1..n : udata'[i] = udata[i]
              /\ (last'.op = "set" /\ ~last'.threw) =>
                    LET k == last'.args[1]
                    IN  /\ k < n
                        /\ ~U_get(udata', k).threw
                        /\ U_get(udata', k).val = last'.args[2]
                        /\ Len(udata') = n
                        /\ \A i \in (1..n) \ {k + 1} : udata'[i] = udata[i]]_vars

\* C19 witness: set(1, 2) on a container of three values
C19_Witness ==
    /\ kind = "Unweighted"
    /\ last.op = "set"
    /\ last.args = <<1, 2>>
    /\ udata = <<0, 2, 1>>

----------------------------------------------------------------------------
(* Appending to a Weighted container (checked under SpecNP). *)

\* the pair an append call adds: append(d) adds (d, 1), append(p) adds p
Appended(call) ==
    IF call.op = "append" THEN Pair(call.args[1], 1) ELSE call.args[1]

\* C16: Weighted::append(d): if a stored pair holds a value that is the same
\* sample value as d (isDoubleEqual), the first such pair has its frequency
\* raised by 1 and the number of pairs stays; otherwise the pair (d, 1) is
\* added after the pairs that were there. Either way every other pair is as
\* before and getSize() has grown by exactly 1. append((v, f)) does the same
\* with f in place of 1.
C16_AppendIncrementsOrAdds ==
    [][(kind = "Weighted" /\ last'.op \in {"append", "append(pair)"}) =>
          LET p == Appended(last')
              n == Len(wdata)
              same == {i \in 1..n : isDoubleEqual(wdata[i].first, p.first)}
          IN  /\ wsize' = Add64(wsize, ToSize(p.second))
              /\ \A i \in 1..n : wdata'[i].first = wdata[i].first
              /\ IF same = {}
                 THEN /\ Len(wdata') = n + 1
                      /\ wdata'[n + 1] = p
                      /\ \A i \in 1..n : wdata'[i] = wdata[i]
                 ELSE /\ Len(wdata') = n
                      /\ \E i \in same :
                            /\ \A j \in same : i <= j
                            /\ wdata'[i].second = wdata[i].second + p.second
                            /\ \A j \in (1..n) \ {i} : wdata'[j] = wdata[j]]_vars

\* C16 witness: append(1) on the pairs (0, 1), (2, 1) found 0 and raised
\* its frequency
C16_Witness ==
    /\ kind = "Weighted"
    /\ last.op = "append"
    /\ last.args = <<1>>
    /\ wdata = <<Pair(0, 2), Pair(2, 1)>>
    /\ wsize = ToSize(3)

----------------------------------------------------------------------------
(* Frequencies of a Weighted container (checked under SpecNP). *)

\* C25: in every reachable state of a Weighted container every stored pair
\* has a frequency of at least 1, whatever constructor built it and whatever
\* append, set and setFreq calls followed.
C25_FrequenciesPositive ==
    kind = "Weighted" => \A i \in 1..Len(wdata) : wdata[i].second >= 1

----------------------------------------------------------------------------
(* Indexed access to a Weighted container (checked under SpecNP). *)

\* k < size for a small index k and a size_type
BelowSize(k, sz) == sz[2] > 0 \/ sz[3] > 0 \/ sz[4] > 0 \/ k < sz[1]

\* the indices get() is called with: up to one past the largest expansion
GetIndices == 0..(MaxPairs * MaxFreq + 1)

\* C13: for every Weighted container and every k < getSize(), get(k) is the
\* k-th element of the expanded sequence, get(k) = getData()[k]; for every
\* k >= getSize(), an empty container included, get(k) fails.
C13_GetWalksExpandedSequence ==
    kind = "Weighted" =>
       \A k \in GetIndices :
          IF BelowSize(k, wsize)
          THEN /\ ~W_get(W, k).threw
               /\ k < Len(W_getData(W))
               /\ W_get(W, k).val = W_getData(W)[k + 1]
          ELSE W_get(W, k).threw

----------------------------------------------------------------------------
(* pdf, cdf and icdf of the parametric distributions (SpecDist): the objects
   of SpecPar, probabilities as fractions of the model's floating-point
   numbers, results kept as terms. *)

\* DBL_MIN: the smallest normalised number, far below the precision at 1
DBL_MIN == Frac(1, 2^(4 * MantBits))

\* isDoubleEqual(y, c) for a fraction y and c = 0 or 1: epsilon is
\* 2^-(MantBits - 1)
isDoubleEqualTo(y, c) ==
    Abs(y.num - c * y.den) * 2^(MantBits - 1) < 2 * y.den

\* 1 - x in floating point
OneMinus(x) == Norm(RoundToDouble(x.den - x.num, x.den))

\* Normal::calcNormInv(p): the AS241 value for 0 < p < 1; for p = 0 and p = 1
\* r = sqrt(-log(0)) is infinite and val = inf / inf is NaN, as it is for a p
\* outside [0, 1], where log gives NaN
calcNormInv(p) ==
    IF p.num <= 0 \/ p.num >= p.den THEN [finite |-> FALSE, z |-> NaN]
    ELSE [finite |-> TRUE, z |-> p]

\* the probability icdf passes to calcNormInv for a y in [0, 1]
Substituted(y) ==
    IF isDoubleEqualTo(y, 0) THEN DBL_MIN
    ELSE IF isDoubleEqualTo(y, 1) THEN OneMinus(DBL_MIN)
    ELSE y

\* Normal::icdf(y): [threw, val] with val the term calcNormInv(y) * sigma + mu
Normal_icdf(y, m, s) ==
    IF y.num < 0 \/ y.num > y.den THEN [threw |-> TRUE, val |-> <<>>]
    ELSE [threw |-> FALSE,
          val |-> [fn |-> "Normal::icdf", q |-> calcNormInv(Substituted(y)),
                   mu |-> m, sigma |-> s]]

\* Lognormal::icdf(y): [threw, val] with val the term
\* exp(n.calcNormInv(y) * sigma + mu)
Lognormal_icdf(y, m, s) ==
    IF y.num < 0 \/ y.num > y.den THEN [threw |-> TRUE, val |-> <<>>]
    ELSE [threw |-> FALSE,
          val |-> [fn |-> "Lognormal::icdf", q |-> calcNormInv(Substituted(y)),
                   mu |-> m, sigma |-> s]]

\* Lognormal::pdf(x)
Lognormal_pdf(x, m, s) ==
    IF x <= 0 THEN [threw |-> TRUE, val |-> <<>>]
    ELSE [threw |-> FALSE,
          val |-> [fn |-> "Lognormal::pdf", x |-> x, mu |-> m, sigma |-> s]]

\* a cdf that rejects negative arguments only
Lognormal_cdfOfZero(x, m, s) ==
    IF x < 0 THEN [threw |-> TRUE, val |-> <<>>]
    ELSE [threw |-> FALSE,
          val |-> [fn |-> "Lognormal::cdf", x |-> x, mu |-> m, sigma |-> s]]

\* Lognormal::cdf(x)
Lognormal_cdf(x, m, s) ==
    IF x <= 0 THEN [threw |-> TRUE, val |-> <<>>]
    ELSE [threw |-> FALSE,
          val |-> [fn |-> "Lognormal::cdf", x |-> x, mu |-> m, sigma |-> s]]

\* the probabilities icdf is called with: 0, 1, one half, and on either
\* side of 0 and of 1 a probability within 2 epsilon of it
ProbArgs ==
    {Frac(0 - 1, 2^(MantBits + 1)), Frac(0, 1), Frac(1, 2^(MantBits + 1)),
     Frac(1, 2), Frac(2^(MantBits + 1) - 1, 2^(MantBits + 1)), Frac(1, 1),
     Frac(2^(MantBits + 1) + 1, 2^(MantBits + 1))}

\* a call of a distribution function: its argument and [threw, val]
Evaluated(op, arg, r) ==
    [op |-> op, threw |-> r.threw, args |-> <<arg>>, val |-> r.val]

\* Normal::icdf, Lognormal::icdf
Icdf ==
    /\ pkind # "none"
    /\ \E y \in ProbArgs :
          plast' = Evaluated("icdf", y,
                      IF pkind = "Normal" THEN Normal_icdf(y, mu, sigma)
                      ELSE Lognormal_icdf(y, mu, sigma))
    /\ UNCHANGED <<pkind, mu, sigma>>
    /\ UNCHANGED notPar

\* Lognormal::pdf
LognormalPdf ==
    /\ pkind = "Lognormal"
    /\ \E x \in ParamValues :
          plast' = Evaluated("pdf", x, Lognormal_pdf(x, mu, sigma))
    /\ UNCHANGED <<pkind, mu, sigma>>
    /\ UNCHANGED notPar

\* Lognormal::cdf
LognormalCdf ==
    /\ pkind = "Lognormal"
    /\ \E x \in ParamValues :
          plast' = Evaluated("cdf", x, Lognormal_cdf(x, mu, sigma))
    /\ UNCHANGED <<pkind, mu, sigma>>
    /\ UNCHANGED notPar

\* icdf(prob) through the virtual call of Parametric
icdfOf(k, y, m, s) ==
    IF k = "Normal" THEN Normal_icdf(y, m, s) ELSE Lognormal_icdf(y, m, s)

\* std::transform(v.begin(), v.end(), samples.begin(), icdf) from element i
\* on, with samples an empty vector: icdf(v[i]) is called first and may
\* throw; its result is then written through the begin() of the empty
\* vector, which is undefined: the program stops there or goes on, and no
\* write changes samples.size(), so what is returned in the end is empty
RECURSIVE TransformOutcomes(_, _, _, _, _)
TransformOutcomes(k, v, i, m, s) ==
    IF i > Len(v) THEN {[outcome |-> "returned", val |-> <<>>]}
    ELSE IF icdfOf(k, v[i], m, s).threw THEN {[outcome |-> "threw", val |-> <<>>]}
    ELSE {[outcome |-> "crashed", val |-> <<>>]}
            \cup TransformOutcomes(k, v, i + 1, m, s)

\* Parametric::sampleIcdf(n, v): the outcomes a build can show
Parametric_sampleIcdf(k, n, v, m, s) ==
    IF n # Len(v) THEN {[outcome |-> "threw", val |-> <<>>]}
    ELSE TransformOutcomes(k, v, 1, m, s)

\* the probabilities sampleIcdf is given: two inside [0, 1], one above
SampleProbs == {Frac(1, 4), Frac(1, 2), Frac(3, 2)}

\* Parametric::sampleIcdf on a Normal or Lognormal
ParametricSampleIcdf ==
    /\ pkind # "none"
    /\ \E n \in 0..MaxN, v \in SeqsUpTo(SampleProbs, MaxN) :
          \E r \in Parametric_sampleIcdf(pkind, n, v, mu, sigma) :
             plast' = [op |-> "sampleIcdf", threw |-> r.outcome = "threw",
                       args |-> <<n, v>>, outcome |-> r.outcome, val |-> r.val]
    /\ UNCHANGED <<pkind, mu, sigma>>
    /\ UNCHANGED notPar

NextDist ==
    \/ NextPar
    \/ Icdf
    \/ LognormalPdf
    \/ LognormalCdf
    \/ ParametricSampleIcdf

SpecDist == InitPar /\ [][NextDist]_vars

C20_IcdfFiniteAtBoundary ==
    (/\ pkind = "Normal"
     /\ sigma > 0
     /\ plast.op = "icdf"
     /\ plast.args[1] \in {Frac(0, 1), Frac(1, 1)}) =>
        /\ ~plast.threw
        /\ plast.val.q.finite
        /\ 0 < plast.val.q.z.num
        /\ plast.val.q.z.num < plast.val.q.z.den

----------------------------------------------------------------------------
(* mode() and median() of an Unweighted container (SpecStat): the container
   is built from a value sequence in the order given. *)

\* sample values no two of which are isDoubleEqual
FarValues == {0, 2 * Epsilon, 4 * Epsilon}

\* Unweighted::median: [threw, val]; data.at() throws std::out_of_range
U_median(data) ==
    LET n == Len(data)
        lo == U_get(data, n \div 2)
        hi == U_get(data, n \div 2 + 1)
    IN  IF n % 2 = 0
        THEN IF lo.threw \/ hi.threw THEN [threw |-> TRUE, val |-> NaN]
             ELSE [threw |-> FALSE, val |-> Quotient(lo.val + hi.val, 2)]
        ELSE IF lo.threw THEN [threw |-> TRUE, val |-> NaN]
             ELSE [threw |-> FALSE, val |-> Quotient(lo.val, 1)]

InitStat ==
    /\ IdleNP /\ IdlePar /\ IdleSamp /\ IdleRvc
    /\ fin \in SeqsUpTo(FarValues, MaxLen) \ {<<>>}
    /\ fout = [op |-> "none"]

\* Unweighted u(v); u.mode()
Mode ==
    /\ fout.op = "none"
    /\ LET data == UnweightedFromVector(fin)
       IN  fout' = [op |-> "mode", data |-> data, ret |-> U_mode(data)]
    /\ UNCHANGED <<fin, notFit>>

\* Unweighted u(v); u.median()
Median ==
    /\ fout.op = "none"
    /\ LET data == UnweightedFromVector(fin)
       IN  fout' = [op |-> "median", data |-> data, ret |-> U_median(data)]
    /\ UNCHANGED <<fin, notFit>>

\* data.at(k).first of a vector of pairs: [threw, val]
PairAt(data, k) ==
    IF k >= Len(data) THEN [threw |-> TRUE, val |-> 0]
    ELSE [threw |-> FALSE, val |-> data[k + 1].first]

\* Weighted::median: [threw, val]; the indices are computed from size
W_median(w) ==
    LET n == SizeOf(WeightedObject(w))
        lo == PairAt(w.data, n \div 2)
        hi == PairAt(w.data, n \div 2 + 1)
    IN  IF n % 2 = 0
        THEN IF lo.threw \/ hi.threw THEN [threw |-> TRUE, val |-> NaN]
             ELSE [threw |-> FALSE, val |-> Quotient(lo.val + hi.val, 2)]
        ELSE IF lo.threw THEN [threw |-> TRUE, val |-> NaN]
             ELSE [threw |-> FALSE, val |-> Quotient(lo.val, 1)]

\* Weighted w(v); w.median()
WMedian ==
    /\ fout.op = "none"
    /\ LET w == WeightedFromVector(fin)
       IN  fout' = [op |-> "Weighted::median", w |-> w, ret |-> W_median(w)]
    /\ UNCHANGED <<fin, notFit>>

\* RandomVariable::variance, pow(std(), 2), of a std held as a square root
variance(sd) == sd.sqrt

\* Unweighted u(v); Weighted w(v); u.std(), w.std(), u.variance(), w.variance()
Spread ==
    /\ fout.op = "none"
    /\ LET u == U_std(UnweightedFromVector(fin))
           w == W_std(WeightedFromVector(fin))
       IN  fout' = [op |-> "std", data |-> fin, ustd |-> u, wstd |-> w,
                    uvariance |-> variance(u), wvariance |-> variance(w)]
    /\ UNCHANGED <<fin, notFit>>

NextStat ==
    \/ Mode
    \/ Median
    \/ WMedian
    \/ Spread

SpecStat == InitStat /\ [][NextStat]_vars

\* C21: for every non-empty Unweighted container mode() returns a value
\* that occurs in the data as often as any value does, and of the values
\* that occur that often the smallest one.
C21_ModeIsFirstMostFrequent ==
    fout.op = "mode" =>
       LET d == fout.data
       IN  /\ fout.ret \in ValuesOf(d)
           /\ \A x \in ValuesOf(d) :
                 /\ Occurrences(x, d) <= Occurrences(fout.ret, d)
                 /\ Occurrences(x, d) = Occurrences(fout.ret, d) => fout.ret <= x

\* C22: for an Unweighted container with an odd number n of values median()
\* returns the middle element of the sorted values, StdSort(data) at position
\* n / 2 counted from 0, whatever the stored order.
C22_MedianOddIsSortedMiddle ==
    (fout.op = "median" /\ Len(fout.data) % 2 = 1) =>
       /\ ~fout.ret.threw
       /\ fout.ret.val = Quotient(StdSort(fout.data)[Len(fout.data) \div 2 + 1], 1)

\* C23: for an Unweighted container with an even number n >= 2 of values
\* median() returns the average of the stored elements at positions n / 2
\* and n / 2 + 1, for every such n.
C23_MedianEvenAveragesStored ==
    (fout.op = "median" /\ Len(fout.data) % 2 = 0 /\ Len(fout.data) >= 2) =>
       /\ ~fout.ret.threw
       /\ LET n == Len(fout.data)
          IN  \/ fout.ret.val = Quotient(fout.data[n \div 2] + fout.data[n \div 2 + 1], 2)
              \/ /\ n \div 2 + 2 <= n
                 /\ fout.ret.val =
                       Quotient(fout.data[n \div 2 + 1] + fout.data[n \div 2 + 2], 2)

\* C24: Parametric::sampleIcdf(n, v) with n equal to the size of v, on
\* probabilities inside [0, 1], returns a vector of exactly n values whose
\* i-th entry is icdf(v[i]); with n different from the size of v it throws.
C24_SampleIcdfMapsIcdf ==
    plast.op = "sampleIcdf" =>
       LET n == plast.args[1]
           v == plast.args[2]
       IN  IF n # Len(v) THEN plast.outcome = "threw"
           ELSE (\A i \in 1..n : ~icdfOf(pkind, v[i], mu, sigma).threw) =>
                   /\ plast.outcome = "returned"
                   /\ Len(plast.val) = n
                   /\ \A i \in 1..n : plast.val[i] = icdfOf(pkind, v[i], mu, sigma).val

\* C27: for every non-empty Weighted container median() returns without
\* error, and what it returns is a stored value or the average of two
\* stored values, also when there are fewer pairs than values.
C27_WeightedMedianReturns ==
    fout.op = "Weighted::median" =>
       /\ ~fout.ret.threw
       /\ \E a, b \in FirstsOf(fout.w.data) : fout.ret.val = Quotient(a + b, 2)

\* C28: for every value sequence v of at least two values Unweighted(v) and
\* Weighted(v) have the same std() and the same variance(), the same sum of
\* squared deviations over the same divisor.
C28_SpreadAgrees ==
    (fout.op = "std" /\ Len(fout.data) >= 2) =>
       /\ fout.ustd = fout.wstd
       /\ fout.uvariance = fout.wvariance

----------------------------------------------------------------------------
(* sampleSingle() around the overflow of its counter (SpecWrap): the program
   has made 2^32 - MaxCount calls of either sampleSingle before. *)

\* n values no two of which are isDoubleEqual
Ramp(n) == [i \in 1..n |-> 2 * (i - 1) * Epsilon]

\* containers of 1 to SampLen + 1 values
WrapContainers ==
    {UnweightedObject(UnweightedFromVector(Ramp(n))) : n \in 1..(SampLen + 1)}
       \cup {WeightedObject(WeightedFromVector(Ramp(n))) : n \in 1..(SampLen + 1)}

\* the unsigned int 2^32 - MaxCount
BeforeWrap == <<Limb - MaxCount, Limb - 1>>

\* how many calls a counter has seen since BeforeWrap
SinceBeforeWrap(c) == (c[1] + MaxCount) % Limb

InitWrap ==
    /\ IdleNP /\ IdleFn /\ IdlePar /\ IdleRvc
    /\ inst \in [Instances -> WrapContainers]
    /\ count = [USingle |-> BeforeWrap, USample |-> <<0, 0>>,
                WSingle |-> BeforeWrap, WSample |-> <<0, 0>>]
    /\ calls = [i \in Instances |-> 0]
    /\ sret = [op |-> "none"]

\* inst[i].sampleSingle(), up to one call after the counter is back at 0
SampleSingleAtWrap ==
    /\ \E i \in Instances :
          LET k == SingleCounter(inst[i])
              r == sampleSingle(inst[i], count[k])
          IN  /\ SinceBeforeWrap(count[k]) <= MaxCount
              /\ count' = [count EXCEPT ![k] = r.count]
              /\ calls' = [calls EXCEPT ![i] = @ + 1]
              /\ sret' = [op |-> "sampleSingle", i |-> i,
                          threw |-> r.threw, val |-> r.val]
    /\ UNCHANGED inst
    /\ UNCHANGED notSamp

NextWrap == SampleSingleAtWrap

SpecWrap == InitWrap /\ [][NextWrap]_vars

\* C30: the round-robin order survives the overflow of the counter: for
\* every container size s, the sampleSingle() call that follows a call on
\* the same container uses the index that cyclically follows the index of
\* that call, (j + 1) mod s after j, the call right after the wrap included.
C30_RoundRobinSurvivesWrap ==
    [][sret'.op = "sampleSingle" =>
          LET c == inst[sret'.i]
              k == SingleCounter(c)
              s == SizeOf(c)
          IN  Mod32(count'[k], s) = (Mod32(count[k], s) + 1) % s]_vars

====
